---- MODULE Spec2Model ----
(***************************************************************************)
(* A model of the Egg runtime header parse.hpp: the streaming parser state *)
(* parse::state (operator[], range, string, forgetTo, maxRead, read), the  *)
(* wrapper parse::result<T> and the primitive matchers any, matches<c> and *)
(* in_range<s,e>; of ast::grammar (ast.hpp); and of the egg program: its   *)
(* command line (class args) and main with its error report.               *)
(*                                                                         *)
(* Values of the unsigned type parse::ind are kept modulo MaxInd + 1, so   *)
(* MaxInd plays the part of ULONG_MAX.  Bytes are their character codes.   *)
(* Where the C++ has undefined behaviour (an indeterminate member, a deque *)
(* accessed or erased past its end, a reversed iterator pair) an operator  *)
(* yields the set of outcomes a build may produce: every operation below   *)
(* returns a SET of outcomes, a singleton where the behaviour is defined.  *)
(***************************************************************************)
EXTENDS Integers, Sequences, FiniteSets

VARIABLES
    ps,     \* the parse::state object, with the std::istream it reads from
    ret,    \* what the last call returned or threw
    res,    \* parse::result<char> objects held by a client
    gram,   \* an ast::grammar under construction
    opts,   \* the args object of main
    run     \* main: where it stands, its locals and what it has written

vars == <<ps, ret, res, gram, opts, run>>

(***************************************************************************)
(* Bounds of the model.                                                    *)
(***************************************************************************)
MaxInd == 4     \* the largest value of parse::ind
MaxLen == 3     \* the longest input stream

NUL == 0        \* '\0'
NL  == 10       \* '\n'

Char == {NUL, NL, 97}           \* the bytes that occur: '\0', '\n', 'opts'
Ind  == 0 .. MaxInd             \* typedef unsigned long ind
Wrap(x) == x % (MaxInd + 1)     \* unsigned arithmetic on ind

Min(a, b) == IF a < b THEN a ELSE b

SeqsUpTo(S, n) == UNION {[1 .. k -> S] : k \in 0 .. n}

Streams == SeqsUpTo(Char, MaxLen)

\* the values an indeterminate ind is drawn from: zero, and the far end of the type
Garbage == {0, MaxInd}

RECURSIVE CountNL(_)
CountNL(s) ==
    IF s = <<>> THEN 0
    ELSE (IF Head(s) = NL THEN 1 ELSE 0) + CountNL(Tail(s))

(***************************************************************************)
(* forgotten_state_error(req, avail, newlines): the member initialiser     *)
(* list stores req and avail and sets newlines to 0.                       *)
(***************************************************************************)
forgotten_state_error(req, avail, newlines) ==
    [req |-> req, avail |-> avail, newlines |-> 0]

NoErr == [req |-> 0, avail |-> 0, newlines |-> 0]

(***************************************************************************)
(* state::state(std::istream& in): pos(0), str(), str_off(0), in(in).      *)
(* newlines_off has no initialiser: its value is indeterminate.  str_ok    *)
(* says that the deque's invariants hold (begin is not past end).          *)
(***************************************************************************)
state(data, garbage) ==
    [pos |-> 0, str |-> <<>>, str_ok |-> TRUE, str_off |-> 0,
     newlines_off |-> garbage, in |-> [data |-> data, gpos |-> 0]]

\* state::read(n) with str assigned the bytes read in place of str.insert(str.end(), ...)
read_replacing(s, n) ==
    LET r == IF n < Len(s.in.data) - s.in.gpos THEN n ELSE Len(s.in.data) - s.in.gpos
    IN  [r  |-> r,
         ps |-> [s EXCEPT !.str = SubSeq(s.in.data, s.in.gpos + 1, s.in.gpos + r),
                          !.in.gpos = s.in.gpos + r]]

(***************************************************************************)
(* state::read(n): in.read(s, n) takes up to n of the bytes left in the    *)
(* stream, r = in.gcount() of them, and appends them to str.               *)
(***************************************************************************)
read(s, n) ==
    LET r == Min(n, Len(s.in.data) - s.in.gpos)
    IN  [r  |-> r,
         ps |-> [s EXCEPT !.str = s.str \o SubSeq(s.in.data, s.in.gpos + 1, s.in.gpos + r),
                          !.in.gpos = s.in.gpos + r]]

(***************************************************************************)
(* Outcomes.  A call returns a value ("value"), or throws                  *)
(* forgotten_state_error ("throw"); either way it leaves the state ps.     *)
(***************************************************************************)
Value(v, s) == [kind |-> "value", val |-> v, err |-> NoErr, ps |-> s]
Throw(e, s) == [kind |-> "throw", val |-> NUL, err |-> e, ps |-> s]

(***************************************************************************)
(* state::operator[](i)                                                    *)
(***************************************************************************)
index(s, i) ==
    IF i < s.str_off
    THEN {Throw(forgotten_state_error(i, s.str_off, s.newlines_off), s)}
    ELSE IF ~s.str_ok
    THEN \* the deque's invariants are broken: the byte is whatever lies in memory
         {Value(b, s) : b \in Char}
    ELSE LET ii == i - s.str_off IN
         IF ii >= Len(s.str)
         THEN LET n  == Wrap(1 + ii - Len(s.str))
                  rd == read(s, n)
              IN  IF rd.r < n
                  THEN {Value(NUL, rd.ps)}
                  ELSE IF ii < Len(rd.ps.str)
                  THEN {Value(rd.ps.str[ii + 1], rd.ps)}
                  ELSE \* n wrapped to 0: str[ii] lies outside the deque
                       {Value(b, rd.ps) : b \in Char}
         ELSE {Value(s.str[ii + 1], s)}

(***************************************************************************)
(* state::range(i, n): the iterator pair (str.begin() + first,             *)
(* str.begin() + last) into the deque of the state it leaves.              *)
(***************************************************************************)
Iters(b, e, s) ==
    [kind |-> "value", first |-> b, last |-> e, err |-> NoErr, ps |-> s]

range(s, i, n) ==
    IF i < s.str_off
    THEN {[kind |-> "throw", first |-> 0, last |-> 0,
           err |-> forgotten_state_error(i, s.str_off, s.newlines_off), ps |-> s]}
    ELSE IF ~s.str_ok
    THEN {Iters(0, 0, s)}   \* iterators into a broken deque: no positions
    ELSE LET ib == i - s.str_off
             ie == Wrap(ib + n)
             t  == IF ie > Len(s.str) THEN read(s, ie - Len(s.str)).ps ELSE s
             sz == Len(t.str)
         IN  IF ie >= sz
             THEN {Iters(IF ib >= sz THEN sz ELSE ib, sz, t)}
             ELSE {Iters(ib, ie, t)}

(***************************************************************************)
(* state::string(i, n): std::string(iters.first, iters.second).  A pair    *)
(* whose first lies after its second, or outside the deque, is no range:   *)
(* the string built from it is whatever the library makes of it.           *)
(***************************************************************************)
Junk == SeqsUpTo(Char, 1)

string(s, i, n) ==
    UNION { IF it.kind = "throw"
            THEN {Throw(it.err, it.ps)}
            ELSE IF it.ps.str_ok /\ it.first <= it.last /\ it.last <= Len(it.ps.str)
            THEN {Value(SubSeq(it.ps.str, it.first + 1, it.last), it.ps)}
            ELSE {Value(j, it.ps) : j \in Junk}
          : it \in range(s, i, n) }

(***************************************************************************)
(* state::forgetTo(i).  With i - str_off greater than str.size() the loop  *)
(* reads, and erase() removes, past the end of the deque: the bytes read   *)
(* there may or may not be '\n', and the deque is left with its begin past *)
(* its end.  The assignment str_off = i follows in every case.             *)
(***************************************************************************)
forgetTo(s, i) ==
    IF i <= s.str_off THEN {s}
    ELSE LET ii == i - s.str_off IN
         IF s.str_ok /\ ii <= Len(s.str)
         THEN {[s EXCEPT !.newlines_off = Wrap(s.newlines_off + CountNL(SubSeq(s.str, 1, ii))),
                         !.str = SubSeq(s.str, ii + 1, Len(s.str)),
                         !.str_off = i]}
         ELSE {[s EXCEPT !.newlines_off = Wrap(s.newlines_off + CountNL(s.str) + g),
                         !.str = <<>>,
                         !.str_ok = FALSE,
                         !.str_off = i]
               : g \in 0 .. (ii - Len(s.str))}

(***************************************************************************)
(* state::maxRead(): str_off + str.size().  The size of a deque whose      *)
(* invariants are broken is any number.                                    *)
(***************************************************************************)
size(s) == IF s.str_ok THEN {Len(s.str)} ELSE Ind

maxRead(s) == {Wrap(s.str_off + sz) : sz \in size(s)}

(***************************************************************************)
(* parse::result<T>, here with T = state::value_type (char).  val is a     *)
(* char member: a constructor that does not name it leaves it              *)
(* indeterminate.                                                          *)
(***************************************************************************)
result_value(v)   == {[val |-> v, success |-> TRUE]}            \* result(const T& v)
result_failure    == {[val |-> g, success |-> FALSE] : g \in Char}  \* result(const failure&)
result_default    == {[val |-> g, success |-> FALSE] : g \in Char}  \* result()

assign_value(r, v)  == [r EXCEPT !.val = v, !.success = TRUE]   \* operator=(const T&)
assign_failure(r)   == [r EXCEPT !.success = FALSE]             \* operator=(const failure&)
assign_result(r, o) ==                                          \* operator=(const result<T>&)
    IF o.success THEN [r EXCEPT !.success = TRUE, !.val = o.val]
    ELSE [r EXCEPT !.success = FALSE]

to_T(r)    == r.val         \* operator T ()
to_bool(r) == r.success     \* operator bool ()
deref(r)   == r.val         \* operator * ()

match(v) == result_value(v)     \* match(const T& v)
fail     == result_failure      \* fail<T>()

(***************************************************************************)
(* The primitive matchers.  Each returns a result<char> ("value") or lets  *)
(* the forgotten_state_error of operator[] pass ("throw").                 *)
(***************************************************************************)
Returns(R, s) == {Value(r, s) : r \in R}

IncPos(s) == [s EXCEPT !.pos = Wrap(s.pos + 1)]

\* any(ps): if ( ps[ps.pos] == '\0' ) return fail(); return match(ps[ps.pos++]);
any(s) ==
    UNION { IF o.kind = "throw" THEN {Throw(o.err, o.ps)}
            ELSE IF o.val = NUL THEN Returns(fail, o.ps)
            ELSE UNION { IF o2.kind = "throw" THEN {Throw(o2.err, o2.ps)}
                         ELSE Returns(match(o2.val), o2.ps)
                       : o2 \in index(IncPos(o.ps), s.pos) }
          : o \in index(s, s.pos) }

\* matches<c> with the increment moved before the test: a failure keeps the advance
matches_advancing(s, c) ==
    UNION { IF o.kind = "throw" THEN {Throw(o.err, o.ps)}
            ELSE IF o.val # c THEN Returns(fail, IncPos(o.ps))
            ELSE Returns(match(c), IncPos(o.ps))
          : o \in index(s, s.pos) }

\* matches<c>(ps): if ( ps[ps.pos] != c ) return fail(); ++ps.pos; return match(c);
matches(s, c) ==
    UNION { IF o.kind = "throw" THEN {Throw(o.err, o.ps)}
            ELSE IF o.val # c THEN Returns(fail, o.ps)
            ELSE Returns(match(c), IncPos(o.ps))
          : o \in index(s, s.pos) }

\* in_range<s,e> with the lower bound excluded: c <= s in place of c < s
in_range_exclusive(s, lo, hi) ==
    UNION { IF o.kind = "throw" THEN {Throw(o.err, o.ps)}
            ELSE IF o.val <= lo \/ o.val > hi THEN Returns(fail, o.ps)
            ELSE Returns(match(o.val), IncPos(o.ps))
          : o \in index(s, s.pos) }

\* in_range<s,e>(ps): c = ps[ps.pos]; if ( c < s || c > e ) return fail(); ++ps.pos; return match(c);
in_range(s, lo, hi) ==
    UNION { IF o.kind = "throw" THEN {Throw(o.err, o.ps)}
            ELSE IF o.val < lo \/ o.val > hi THEN Returns(fail, o.ps)
            ELSE Returns(match(o.val), IncPos(o.ps))
          : o \in index(s, s.pos) }

(***************************************************************************)
(* The calls a client makes on a parse::state.  ret keeps the outcome of   *)
(* the last call: its name, whether it returned ("value") or threw         *)
(* ("throw"), and what it returned (a byte, a string, an iterator pair, a  *)
(* result<char> as its val and success) or the error it threw.             *)
(***************************************************************************)
NoRet ==
    [op |-> "state", kind |-> "value", byte |-> NUL, text |-> <<>>,
     first |-> 0, last |-> 0, success |-> FALSE, err |-> NoErr]

\* what a client sees of a matcher's outcome: the result's bool conversion, and
\* the byte of a result that holds one
Seen(O) ==
    {[kind |-> o.kind, ps |-> o.ps, err |-> o.err,
      success |-> (o.kind = "value" /\ to_bool(o.val)),
      byte |-> IF o.kind = "value" /\ to_bool(o.val) THEN to_T(o.val) ELSE NUL] : o \in O}

RetResult(op, o) ==
    [NoRet EXCEPT !.op = op, !.kind = o.kind, !.byte = o.byte,
                  !.success = o.success, !.err = o.err]

Index(i) ==
    \E o \in index(ps, i) :
        /\ ps' = o.ps
        /\ ret' = [NoRet EXCEPT !.op = "index", !.kind = o.kind, !.byte = o.val, !.err = o.err]
        /\ UNCHANGED <<res, gram, opts, run>>

Range(i, n) ==
    \E o \in range(ps, i, n) :
        /\ ps' = o.ps
        /\ ret' = [NoRet EXCEPT !.op = "range", !.kind = o.kind, !.first = o.first,
                                !.last = o.last, !.err = o.err]
        /\ UNCHANGED <<res, gram, opts, run>>

String(i, n) ==
    \E o \in string(ps, i, n) :
        /\ ps' = o.ps
        /\ ret' = [NoRet EXCEPT !.op = "string", !.kind = o.kind,
                                !.text = IF o.kind = "throw" THEN <<>> ELSE o.val,
                                !.err = o.err]
        /\ UNCHANGED <<res, gram, opts, run>>

ForgetTo(i) ==
    \E t \in forgetTo(ps, i) :
        /\ ps' = t
        /\ ret' = [NoRet EXCEPT !.op = "forgetTo"]
        /\ UNCHANGED <<res, gram, opts, run>>

MaxRead ==
    \E m \in maxRead(ps) :
        /\ ret' = [NoRet EXCEPT !.op = "maxRead", !.first = m]
        /\ UNCHANGED <<ps, res, gram, opts, run>>

\* ps.pos is a public member: a client saves it and assigns it back.
SetPos(p) ==
    /\ ps' = [ps EXCEPT !.pos = p]
    /\ ret' = [NoRet EXCEPT !.op = "pos"]
    /\ UNCHANGED <<res, gram, opts, run>>

Any ==
    \E o \in Seen(any(ps)) :
        /\ ps' = o.ps
        /\ ret' = RetResult("any", o)
        /\ UNCHANGED <<res, gram, opts, run>>

Matches(c) ==
    \E o \in Seen(matches(ps, c)) :
        /\ ps' = o.ps
        /\ ret' = RetResult("matches", o)
        /\ UNCHANGED <<res, gram, opts, run>>

InRange(lo, hi) ==
    \E o \in Seen(in_range(ps, lo, hi)) :
        /\ ps' = o.ps
        /\ ret' = RetResult("in_range", o)
        /\ UNCHANGED <<res, gram, opts, run>>

(***************************************************************************)
(* ast::grammar.  A shared_ptr<grammar_rule> is the rule object it points  *)
(* to: its name and the identity (id) of the object.  rs is the vector of  *)
(* rules, names the unordered_map from a name to a rule.                   *)
(***************************************************************************)
MaxRules == 4       \* the most rules added to a grammar

RuleNames == {"x", "y"}
Rules     == [name : RuleNames, id : {1, 2}]

grammar == [rs |-> <<>>, names |-> [n \in {} |-> [name |-> "", id |-> 0]]]  \* grammar() {}

\* operator += with names[r->name] = r in place of names.insert(...)
add_rule_overwriting(gr, r) ==
    [rs    |-> Append(gr.rs, r),
     names |-> [n \in DOMAIN gr.names \cup {r.name} |->
                    IF n = r.name THEN r ELSE gr.names[n]]]

\* operator += (r): rs.push_back(r); names.insert(std::make_pair(r->name, r));
\* unordered_map::insert leaves the map as it is when the key is present
add_rule(gr, r) ==
    [rs    |-> Append(gr.rs, r),
     names |-> IF r.name \in DOMAIN gr.names
               THEN gr.names
               ELSE [n \in DOMAIN gr.names \cup {r.name} |->
                        IF n = r.name THEN r ELSE gr.names[n]]]

(***************************************************************************)
(* class args (the egg program's command line).  A C string is the         *)
(* sequence of its character codes, without the terminating '\0'; argv is  *)
(* the sequence argv[1], ..., argv[argc - 1], so that argc = Len(argv) + 1 *)
(* and argv[i] is the i-th element.  The string literals of the class:     *)
(***************************************************************************)
S_i           == <<45, 105>>                                         \* "-i"
S_input       == <<45, 45, 105, 110, 112, 117, 116>>                 \* "--input"
S_o           == <<45, 111>>                                         \* "-o"
S_output      == <<45, 45, 111, 117, 116, 112, 117, 116>>            \* "--output"
S_c           == <<45, 99>>                                          \* "-c"
S_command     == <<45, 45, 99, 111, 109, 109, 97, 110, 100>>         \* "--command"
S_n           == <<45, 110>>                                         \* "-n"
S_name        == <<45, 45, 110, 97, 109, 101>>                       \* "--name"
S_no_norm     == <<45, 45, 110, 111, 45, 110, 111, 114, 109>>        \* "--no-norm"
S_usage       == <<45, 45, 117, 115, 97, 103, 101>>                  \* "--usage"
S_help        == <<45, 45, 104, 101, 108, 112>>                      \* "--help"
S_version     == <<45, 45, 118, 101, 114, 115, 105, 111, 110>>       \* "--version"
S_print       == <<112, 114, 105, 110, 116>>                         \* "print"
S_compile     == <<99, 111, 109, 112, 105, 108, 101>>                \* "compile"
S_help_cmd    == <<104, 101, 108, 112>>                              \* "help"
S_usage_cmd   == <<117, 115, 97, 103, 101>>                          \* "usage"
S_version_cmd == <<118, 101, 114, 115, 105, 111, 110>>               \* "version"

Modes == {"PRINT_MODE", "COMPILE_MODE", "USAGE_MODE", "HELP_MODE", "VERSION_MODE"}  \* enum egg_mode

eq(lit, arg) == lit = arg                               \* std::string(lit) == std::string(arg)

match_arg(shrt, lng, arg) == shrt = arg \/ lng = arg    \* args::match

\* the character tests of id_prefix
IdStart(c) == (c >= 65 /\ c <= 90) \/ (c >= 97 /\ c <= 122) \/ c = 95
IdChar(c)  == IdStart(c) \/ (c >= 48 /\ c <= 57)

\* s[len], the terminating '\0' included
CharAt(s, len) == IF len < Len(s) THEN s[len + 1] ELSE NUL

\* the while loop of id_prefix: c = s[++len] as long as c is a letter, a digit or '_'
RECURSIVE id_prefix_loop(_, _)
id_prefix_loop(s, len) ==
    IF IdChar(CharAt(s, len)) THEN id_prefix_loop(s, len + 1) ELSE len

\* args::id_prefix(s)
id_prefix(s) ==
    IF IdStart(CharAt(s, 0)) THEN SubSeq(s, 1, id_prefix_loop(s, 1)) ELSE <<>>

\* a stream pointer: 0, or the stream opened on a file
NullStream == [open |-> FALSE, file |-> <<>>]
FileStream(s) == [open |-> TRUE, file |-> s]

\* args::parse_mode(s): the pair of what it returns and the object it leaves
parse_mode(st, s) ==
    IF eq(S_print, s)            THEN [ok |-> TRUE, st |-> [st EXCEPT !.eMode = "PRINT_MODE"]]
    ELSE IF eq(S_compile, s)     THEN [ok |-> TRUE, st |-> [st EXCEPT !.eMode = "COMPILE_MODE"]]
    ELSE IF eq(S_help_cmd, s)    THEN [ok |-> TRUE, st |-> [st EXCEPT !.eMode = "HELP_MODE"]]
    ELSE IF eq(S_usage_cmd, s)   THEN [ok |-> TRUE, st |-> [st EXCEPT !.eMode = "USAGE_MODE"]]
    ELSE IF eq(S_version_cmd, s) THEN [ok |-> TRUE, st |-> [st EXCEPT !.eMode = "VERSION_MODE"]]
    ELSE [ok |-> FALSE, st |-> st]

\* args::parse_input(s)
parse_input(st, s) ==
    [st EXCEPT !.in = FileStream(s),
               !.pName = IF ~st.nameFlag /\ ~st.out.open THEN id_prefix(s) ELSE st.pName]

\* args::parse_output(s)
parse_output(st, s) ==
    [st EXCEPT !.out = FileStream(s),
               !.pName = IF ~st.nameFlag THEN id_prefix(s) ELSE st.pName]

\* args::parse_name(s)
parse_name(st, s) == [st EXCEPT !.pName = id_prefix(s), !.nameFlag = TRUE]

\* for (; i < argc; ++i) { ... }: from the test i < argc on.  It ends by a return
\* from the constructor (returned), or by the test failing or a break.  After
\* -c, parse_mode(argv[++i]) that succeeds is followed by one more ++i, and
\* then by the loop's own.
RECURSIVE flag_loop(_, _)
flag_loop(st, argv) ==
    LET argc  == Len(argv) + 1
        i     == st.i
        again(t) == flag_loop([t EXCEPT !.i = t.i + 1], argv)
        leave(t) == [returned |-> TRUE, st |-> t]
        next     == [st EXCEPT !.i = i + 1]
    IN  IF ~(i < argc) THEN [returned |-> FALSE, st |-> st]
        ELSE IF match_arg(S_i, S_input, argv[i])
        THEN IF i + 1 >= argc THEN leave(st) ELSE again(parse_input(next, argv[i + 1]))
        ELSE IF match_arg(S_o, S_output, argv[i])
        THEN IF i + 1 >= argc THEN leave(st) ELSE again(parse_output(next, argv[i + 1]))
        ELSE IF match_arg(S_c, S_command, argv[i])
        THEN IF i + 1 >= argc THEN leave(st)
             ELSE LET pm == parse_mode(next, argv[i + 1])
                  IN  again(IF pm.ok THEN [pm.st EXCEPT !.i = pm.st.i + 1] ELSE pm.st)
        ELSE IF match_arg(S_n, S_name, argv[i])
        THEN IF i + 1 >= argc THEN leave(st) ELSE again(parse_name(next, argv[i + 1]))
        ELSE IF eq(S_no_norm, argv[i]) THEN again([st EXCEPT !.normFlag = FALSE])
        ELSE IF eq(S_usage, argv[i])   THEN again([st EXCEPT !.eMode = "USAGE_MODE"])
        ELSE IF eq(S_help, argv[i])    THEN again([st EXCEPT !.eMode = "HELP_MODE"])
        ELSE IF eq(S_version, argv[i]) THEN again([st EXCEPT !.eMode = "VERSION_MODE"])
        ELSE [returned |-> FALSE, st |-> st]

\* the members as the constructor first sets them
NoArgs ==
    [in |-> NullStream, out |-> NullStream, pName |-> <<>>, nameFlag |-> FALSE,
     normFlag |-> TRUE, eMode |-> "COMPILE_MODE", i |-> 1]

\* args::args(argc, argv)
args(argv) ==
    LET argc == Len(argv) + 1 IN
    IF argc <= 1 THEN NoArgs
    ELSE LET pm == parse_mode(NoArgs, argv[1])
             fl == flag_loop(IF pm.ok THEN [pm.st EXCEPT !.i = 2] ELSE pm.st, argv)
             st == fl.st
         IN  IF fl.returned THEN st
             ELSE IF st.i < argc
             THEN LET t == parse_input([st EXCEPT !.i = st.i + 1], argv[st.i])
                  IN  IF t.i < argc
                      THEN parse_output([t EXCEPT !.i = t.i + 1], argv[t.i])
                      ELSE t
             ELSE st

\* the accessors
name(st) == st.pName
norm(st) == st.normFlag
mode(st) == st.eMode

(***************************************************************************)
(* main.  run.pc is where main stands; run.argv is the command line it was *)
(* started with.  maxPos, startPos, endPos and lineCount are the int64_t   *)
(* locals of the error report; passed is the set of the values the report  *)
(* has passed as an index to ps, each with maxRead() as it was at the      *)
(* call; cerr and cout are what has been written; exit is how main ended.  *)
(***************************************************************************)
NotRun ==
    [pc |-> "none", argv |-> <<>>, maxPos |-> 0, startPos |-> 0, endPos |-> 0,
     lineCount |-> 0, passed |-> {}, normalized |-> FALSE,
     cerr |-> <<>>, cout |-> <<>>, exit |-> "running"]

ToInd(x) == x % (MaxInd + 1)        \* an int64_t converted to parse::ind

Pass(s, x) == [i |-> x, max |-> s.str_off + Len(s.str)]

Scan(kind, s, pos, passed) == [kind |-> kind, ps |-> s, pos |-> pos, passed |-> passed]

\* for (startPos = maxPos - 1; startPos > 0 && ps[startPos] != '\n'; --startPos);
\* from the test on
RECURSIVE back_scan(_, _, _)
back_scan(s, startPos, passed) ==
    IF ~(startPos > 0) THEN {Scan("value", s, startPos, passed)}
    ELSE LET p2 == passed \cup {Pass(s, startPos)} IN
         UNION { IF o.kind = "throw" THEN {Scan("throw", o.ps, startPos, p2)}
                 ELSE IF o.val # NL THEN back_scan(o.ps, startPos - 1, p2)
                 ELSE {Scan("value", o.ps, startPos, p2)}
               : o \in index(s, ToInd(startPos)) }

\* startPos += ps[startPos] == '\n';
line_start(s, startPos, passed) ==
    LET p2 == passed \cup {Pass(s, startPos)} IN
    { IF o.kind = "throw" THEN Scan("throw", o.ps, startPos, p2)
      ELSE Scan("value", o.ps, startPos + (IF o.val = NL THEN 1 ELSE 0), p2)
    : o \in index(s, ToInd(startPos)) }

\* for (endPos = maxPos; ps[endPos] != '\n' && ps[endPos] != '\0'; ++endPos);
\* from the test on
RECURSIVE fwd_scan(_, _, _)
fwd_scan(s, endPos, passed) ==
    LET p2 == passed \cup {Pass(s, endPos)} IN
    UNION { IF o.kind = "throw" THEN {Scan("throw", o.ps, endPos, p2)}
            ELSE IF o.val = NL THEN {Scan("value", o.ps, endPos, p2)}
            ELSE UNION { IF o2.kind = "throw" THEN {Scan("throw", o2.ps, endPos, p2)}
                         ELSE IF o2.val = NUL THEN {Scan("value", o2.ps, endPos, p2)}
                         ELSE fwd_scan(o2.ps, endPos + 1, p2)
                       : o2 \in index(o.ps, ToInd(endPos)) }
          : o \in index(s, ToInd(endPos)) }

\* try { for (int64_t pos = startPos; pos > 0; --pos) lineCount += (ps[pos] == '\n'); }
\* catch (parse::forgotten_state_error& e) { lineCount += e.newlines; }
\* from the test on; pos of the outcome is lineCount
RECURSIVE line_count(_, _, _, _)
line_count(s, pos, lineCount, passed) ==
    IF ~(pos > 0) THEN {Scan("value", s, lineCount, passed)}
    ELSE LET p2 == passed \cup {Pass(s, pos)} IN
         UNION { IF o.kind = "throw"
                 THEN {Scan("value", o.ps, lineCount + o.err.newlines, p2)}
                 ELSE line_count(o.ps, pos - 1,
                                 lineCount + (IF o.val = NL THEN 1 ELSE 0), p2)
               : o \in index(s, ToInd(pos)) }

\* ceil(log10(n)) for n >= 1
RECURSIVE CeilLog10(_)
CeilLog10(n) == IF n <= 1 THEN 0 ELSE 1 + CeilLog10((n + 9) \div 10)

\* the three lines written to std::cerr
Line1(maxPos) == [line |-> 1, n |-> maxPos, text |-> <<>>, col |-> 0]
Line2(lineCount, text) == [line |-> 2, n |-> lineCount, text |-> text, col |-> 0]
Line3(lineCount, pad, errPos) ==
    [line |-> 3, n |-> 5 + CeilLog10(lineCount) + 4 + pad, text |-> <<>>, col |-> errPos]

\* what a mode writes to a.output()
Printed       == [by |-> "printer", name |-> <<>>]
Compiled(nm)  == [by |-> "compiler", name |-> nm]
UsageText(md) == [by |-> md, name |-> <<>>]

\* a client of the buffer alone holds no result of interest
NoResults == [x \in {"a", "b"} |-> [val |-> NUL, success |-> FALSE]]

Init ==
    /\ \E data \in Streams, garbage \in Garbage : ps = state(data, garbage)
    /\ ret = NoRet
    /\ res = NoResults
    /\ gram = grammar /\ opts = NoArgs /\ run = NotRun

(***************************************************************************)
(* Spec: a client of the buffer interface of parse::state.                 *)
(***************************************************************************)
Next ==
    \/ \E i \in Ind : Index(i)
    \/ \E i \in Ind, n \in Ind : Range(i, n)
    \/ \E i \in Ind, n \in Ind : String(i, n)
    \/ \E i \in Ind : ForgetTo(i)
    \/ MaxRead

Spec == Init /\ [][Next]_vars

(***************************************************************************)
(* SpecMatch: a parser built from the primitive matchers, which saves and  *)
(* restores ps.pos and may discard input it is done with.                  *)
(***************************************************************************)
NextMatch ==
    \/ Any
    \/ \E c \in Char : Matches(c)
    \/ \E lo \in Char, hi \in Char : InRange(lo, hi)
    \/ \E p \in Ind : SetPos(p)
    \/ \E i \in Ind : ForgetTo(i)

SpecMatch == Init /\ [][NextMatch]_vars

(***************************************************************************)
(* SpecPrim: a parser that only calls the primitive matchers, from pos = 0 *)
(* on.                                                                     *)
(***************************************************************************)
NextPrim ==
    \/ Any
    \/ \E c \in Char : Matches(c)
    \/ \E lo \in Char, hi \in Char : InRange(lo, hi)

SpecPrim == Init /\ [][NextPrim]_vars

(***************************************************************************)
(* SpecResult: a client that holds two parse::result<char> objects,        *)
(* constructs them anew, assigns to them and converts them.                *)
(***************************************************************************)
Results == {"a", "b"}

Construct(x, v) ==
    \E r \in result_value(v) :
        /\ res' = [res EXCEPT ![x] = r]
        /\ ret' = [NoRet EXCEPT !.op = "result(T)"]
        /\ UNCHANGED <<ps, gram, opts, run>>

ConstructFailure(x) ==
    \E r \in result_failure :
        /\ res' = [res EXCEPT ![x] = r]
        /\ ret' = [NoRet EXCEPT !.op = "result(failure)"]
        /\ UNCHANGED <<ps, gram, opts, run>>

ConstructDefault(x) ==
    \E r \in result_default :
        /\ res' = [res EXCEPT ![x] = r]
        /\ ret' = [NoRet EXCEPT !.op = "result()"]
        /\ UNCHANGED <<ps, gram, opts, run>>

AssignValue(x, v) ==
    /\ res' = [res EXCEPT ![x] = assign_value(res[x], v)]
    /\ ret' = [NoRet EXCEPT !.op = "=T"]
    /\ UNCHANGED <<ps, gram, opts, run>>

AssignFailure(x) ==
    /\ res' = [res EXCEPT ![x] = assign_failure(res[x])]
    /\ ret' = [NoRet EXCEPT !.op = "=failure"]
    /\ UNCHANGED <<ps, gram, opts, run>>

AssignResult(x, y) ==
    /\ res' = [res EXCEPT ![x] = assign_result(res[x], res[y])]
    /\ ret' = [NoRet EXCEPT !.op = "=result"]
    /\ UNCHANGED <<ps, gram, opts, run>>

\* T v = r; bool ok = r;
Convert(x) ==
    /\ ret' = [NoRet EXCEPT !.op = "convert", !.byte = to_T(res[x]), !.success = to_bool(res[x])]
    /\ UNCHANGED <<ps, res, gram, opts, run>>

InitResult ==
    /\ ps = state(<<>>, 0)
    /\ ret = NoRet
    /\ res \in [Results -> result_default]
    /\ gram = grammar /\ opts = NoArgs /\ run = NotRun

NextResult ==
    \/ \E x \in Results, v \in Char : Construct(x, v)
    \/ \E x \in Results : ConstructFailure(x)
    \/ \E x \in Results : ConstructDefault(x)
    \/ \E x \in Results, v \in Char : AssignValue(x, v)
    \/ \E x \in Results : AssignFailure(x)
    \/ \E x \in Results, y \in Results : AssignResult(x, y)
    \/ \E x \in Results : Convert(x)

SpecResult == InitResult /\ [][NextResult]_vars

(***************************************************************************)
(* SpecGrammar: a client (the grammar parser's actions) that builds an     *)
(* ast::grammar by adding rules to it.                                     *)
(***************************************************************************)
AddRule(r) ==
    /\ Len(gram.rs) < MaxRules
    /\ gram' = add_rule(gram, r)
    /\ ret' = [NoRet EXCEPT !.op = "+="]
    /\ UNCHANGED <<ps, res, opts, run>>

InitGrammar ==
    /\ ps = state(<<>>, 0)
    /\ ret = NoRet
    /\ res = NoResults
    /\ gram = grammar /\ opts = NoArgs /\ run = NotRun

NextGrammar == \E r \in Rules : AddRule(r)

SpecGrammar == InitGrammar /\ [][NextGrammar]_vars

(***************************************************************************)
(* SpecMain: one run of the egg program, from its command line and its     *)
(* input stream to its exit.                                               *)
(***************************************************************************)
\* args a(argc, argv);
Args ==
    /\ run.pc = "start"
    /\ opts' = args(run.argv)
    /\ run' = [run EXCEPT !.pc = "switch"]
    /\ UNCHANGED <<ps, ret, res, gram>>

\* switch ( a.mode() ): the usage, help and version modes
Usage ==
    /\ run.pc = "switch"
    /\ mode(opts) \in {"USAGE_MODE", "HELP_MODE", "VERSION_MODE"}
    /\ run' = [run EXCEPT !.pc = "done", !.cout = <<UsageText(mode(opts))>>, !.exit = "0"]
    /\ UNCHANGED <<ps, ret, res, gram, opts>>

\* if ( egg::grammar(ps)(g) ): the grammar parser reads the input through
\* ps[...] from index 0 up to some index k and never discards; it succeeds
\* only having seen the end of the input, and leaves the grammar it built.
Grammar ==
    /\ run.pc = "switch"
    /\ mode(opts) \notin {"USAGE_MODE", "HELP_MODE", "VERSION_MODE"}
    /\ \E k \in 0 .. Len(ps.in.data), ok \in BOOLEAN : \E o \in index(ps, k) :
        /\ ok => (k = Len(ps.in.data) /\ k >= 1)
        /\ ps' = [o.ps EXCEPT !.pos = IF ok THEN Len(o.ps.str) ELSE 0]
        /\ run' = [run EXCEPT !.pc = IF ok THEN "parsed" ELSE "failed"]
        /\ IF ok THEN \E r \in Rules : gram' = add_rule(grammar, r) ELSE gram' = gram
        /\ ret' = [NoRet EXCEPT !.op = "grammar", !.success = ok]
    /\ UNCHANGED <<res, opts>>

\* if ( a.norm() ) { visitor::normalizer n; n.normalize(*g); }
Normalize ==
    /\ run.pc = "parsed"
    /\ run' = [run EXCEPT !.pc = "emit", !.normalized = norm(opts)]
    /\ UNCHANGED <<ps, ret, res, gram, opts>>

\* switch ( a.mode() ): PRINT_MODE, COMPILE_MODE; return 0;
Emit ==
    /\ run.pc = "emit"
    /\ run' = [run EXCEPT !.pc = "done", !.exit = "0",
                          !.cout = IF mode(opts) = "PRINT_MODE" THEN <<Printed>>
                                   ELSE IF mode(opts) = "COMPILE_MODE" THEN <<Compiled(name(opts))>>
                                   ELSE <<>>]
    /\ UNCHANGED <<ps, ret, res, gram, opts>>

\* an exception that leaves main: std::terminate
Terminate(r) == [r EXCEPT !.pc = "done", !.exit = "abort"]

\* int64_t maxPos = ps.maxRead(); and the backward scan for startPos
BackScan ==
    /\ run.pc = "failed"
    /\ \E m \in maxRead(ps) :
       \E b \in back_scan(ps, m - 1, {}) :
       \E o \in (IF b.kind = "throw" THEN {b} ELSE line_start(b.ps, b.pos, b.passed)) :
        /\ ps' = o.ps
        /\ run' = IF o.kind = "throw"
                  THEN Terminate([run EXCEPT !.maxPos = m, !.passed = o.passed])
                  ELSE [run EXCEPT !.pc = "fwd", !.maxPos = m, !.startPos = o.pos,
                                   !.passed = o.passed]
    /\ UNCHANGED <<ret, res, gram, opts>>

\* the forward scan for endPos
FwdScan ==
    /\ run.pc = "fwd"
    /\ \E o \in fwd_scan(ps, run.maxPos, run.passed) :
        /\ ps' = o.ps
        /\ run' = IF o.kind = "throw"
                  THEN Terminate([run EXCEPT !.passed = o.passed])
                  ELSE [run EXCEPT !.pc = "count", !.endPos = o.pos, !.passed = o.passed]
    /\ UNCHANGED <<ret, res, gram, opts>>

\* int64_t lineCount = 1; and the loop that counts the newlines
LineCount ==
    /\ run.pc = "count"
    /\ \E o \in line_count(ps, run.startPos, 1, run.passed) :
        /\ ps' = o.ps
        /\ run' = [run EXCEPT !.pc = "print", !.lineCount = o.pos, !.passed = o.passed]
    /\ UNCHANGED <<ret, res, gram, opts>>

\* the three statements that write to std::cerr, and return 1.  A negative
\* length given to std::string(n, ' ') is a size_t beyond max_size():
\* std::length_error leaves main, before or after the operands to its left
\* are written.
Report ==
    /\ run.pc = "print"
    /\ LET errPos == run.maxPos - run.startPos
           pad    == run.maxPos - run.startPos - 1
           p2     == run.passed \cup {Pass(ps, run.startPos)}
       IN  \E o \in string(ps, ToInd(run.startPos), ToInd(run.endPos - run.startPos)) :
            /\ ps' = o.ps
            /\ IF o.kind = "throw"
               THEN run' = Terminate([run EXCEPT !.passed = p2,
                                                 !.cerr = <<Line1(run.maxPos)>>])
               ELSE LET two == <<Line1(run.maxPos), Line2(run.lineCount, o.val)>> IN
                    IF pad < 0
                    THEN \E part \in {<<>>, <<Line3(run.lineCount, 0, 0)>>} :
                            run' = Terminate([run EXCEPT !.passed = p2, !.cerr = two \o part])
                    ELSE run' = [run EXCEPT !.pc = "done", !.exit = "1", !.passed = p2,
                                            !.cerr = Append(two, Line3(run.lineCount, pad, errPos))]
    /\ UNCHANGED <<ret, res, gram, opts>>

MaxFlags == 3       \* the most flags on a command line

\* the file names and the grammar names of the command lines
Files     == {<<103, 46, 101>>, <<57>>}         \* "g.e", "9"
NameArgs  == {<<104, 95, 49>>}                  \* "h_1"

\* the flags of a command line, each with its value
FlagItems ==
    {<<S_i, f>> : f \in Files} \cup {<<S_o, f>> : f \in Files}
        \cup {<<S_n, n>> : n \in NameArgs} \cup {<<S_c, S_print>>, <<S_no_norm>>}

RECURSIVE Flatten(_)
Flatten(ss) == IF ss = <<>> THEN <<>> ELSE Head(ss) \o Flatten(Tail(ss))

\* egg [command] [flags] [input-file [output-file]]
CmdLines ==
    {c \o Flatten(fs) \o fl :
        c \in {<<>>, <<S_compile>>}, fs \in SeqsUpTo(FlagItems, MaxFlags),
        fl \in SeqsUpTo(Files, 2)}

\* the command lines tried on every input
FewCmdLines == {<<>>, <<S_print, S_no_norm>>, <<S_usage>>, <<S_c, S_help_cmd>>, <<S_version>>}

InitMain ==
    /\ \/ \E data \in Streams, garbage \in Garbage, argv \in FewCmdLines :
            ps = state(data, garbage) /\ run = [NotRun EXCEPT !.pc = "start", !.argv = argv]
       \/ \E garbage \in Garbage, argv \in CmdLines :
            ps = state(<<>>, garbage) /\ run = [NotRun EXCEPT !.pc = "start", !.argv = argv]
    /\ ret = NoRet
    /\ res = NoResults
    /\ gram = grammar /\ opts = NoArgs

NextMain ==
    \/ Args
    \/ Usage
    \/ Grammar
    \/ Normalize
    \/ Emit
    \/ BackScan
    \/ FwdScan
    \/ LineCount
    \/ Report

SpecMain == InitMain /\ [][NextMain]_vars

(***************************************************************************)
(* Vocabulary of the claims.                                               *)
(***************************************************************************)
Data == ps.in.data              \* the whole input stream
L    == Len(Data)               \* its length

\* the byte of the stream at index i, '\0' past its end
StreamByte(i) == IF i < L THEN Data[i + 1] ELSE NUL

\* the bytes of the stream at indices [a, b), clamped to the stream
StreamBytes(a, b) == SubSeq(Data, a + 1, Min(b, L))

Take(s, k) == SubSeq(s, 1, Min(k, Len(s)))
Drop(s, k) == SubSeq(s, Min(k, Len(s)) + 1, Len(s))

(***************************************************************************)
(* C1: a call of operator[](i), range(i, n) or string(i, n) with           *)
(* i < str_off throws a forgotten_state_error with req = i,                *)
(* avail = str_off and newlines = newlines_off.                            *)
(***************************************************************************)
C1_ForgottenErrorFields ==
    [][\A i \in Ind :
        (/\ i < ps.str_off
         /\ (Index(i) \/ \E n \in Ind : Range(i, n) \/ String(i, n)))
        => /\ ret'.kind = "throw"
           /\ ret'.err = [req |-> i, avail |-> ps.str_off, newlines |-> ps.newlines_off]]_vars

(***************************************************************************)
(* C2: in every state reached by calls of operator[], range, string and    *)
(* forgetTo, operator[](i) with str_off <= i < L returns the i-th byte of  *)
(* the stream and with i >= L returns '\0'.                                *)
(***************************************************************************)
C2_IndexReturnsStreamByte ==
    [][\A i \in Ind :
        (i >= ps.str_off /\ Index(i))
        => (ret'.kind = "value" /\ ret'.byte = StreamByte(i))]_vars

(***************************************************************************)
(* C3: newline accounting.  For every pos from str_off to maxRead(),       *)
(* newlines_off plus the number of '\n' among the retained bytes at stream *)
(* indices [str_off, pos) is the number of '\n' in the stream's [0, pos).  *)
(***************************************************************************)
C3_NewlineAccounting ==
    \A p \in Ind : (p >= ps.str_off /\ p - ps.str_off <= Len(ps.str)) =>
        ps.newlines_off + CountNL(Take(ps.str, p - ps.str_off))
            = CountNL(StreamBytes(0, p))

(***************************************************************************)
(* C4: buffer consistency.  For every j and every i >= max(j, str_off),    *)
(* operator[](i) after forgetTo(j) returns the byte operator[](i) returns  *)
(* before it; and operator[](i) called again, with no forgetTo in between, *)
(* returns the same byte.                                                  *)
(***************************************************************************)
Bytes(O) == {o.val : o \in {x \in O : x.kind = "value"}}

C4_BufferConsistency ==
    [][/\ \A j \in Ind : ForgetTo(j) =>
            \A i \in Ind : (i >= j /\ i >= ps.str_off) =>
                \A o \in index(ps', i) :
                    /\ o.kind = "value"
                    /\ Bytes(index(ps, i)) = {o.val}
       /\ \A i \in Ind : (i >= ps.str_off /\ Index(i)) =>
            \A o \in index(ps', i) : o.kind = "value" /\ o.val = ret'.byte]_vars

(***************************************************************************)
(* C5: forgetTo(i) with i > str_off adds the number of '\n' among the      *)
(* first i - str_off retained bytes to newlines_off, removes exactly those *)
(* i - str_off bytes from the front of the buffer and sets str_off to i;   *)
(* forgetTo(i) with i <= str_off changes nothing.                          *)
(***************************************************************************)
C5_ForgetToEffect ==
    [][\A i \in Ind : ForgetTo(i) =>
        IF i > ps.str_off
        THEN LET k == i - ps.str_off IN
             /\ ps'.newlines_off = Wrap(ps.newlines_off + CountNL(Take(ps.str, k)))
             /\ Len(ps'.str) = Len(ps.str) - k
             /\ ps'.str = Drop(ps.str, k)
             /\ ps'.str_ok = ps.str_ok
             /\ ps'.str_off = i
             /\ ps'.pos = ps.pos /\ ps'.in = ps.in
        ELSE ps' = ps]_vars

(***************************************************************************)
(* C6: for every i >= str_off and every n, string(i, n) returns exactly    *)
(* the bytes of the stream at indices [i, min(i + n, L)): min(n, L - i)    *)
(* bytes when i < L, none when i >= L.  It is the string of the iterator   *)
(* pair range(i, n).                                                       *)
(***************************************************************************)
C6_StringReturnsStreamBytes ==
    [][\A i \in Ind : i >= ps.str_off =>
        \A n \in Ind :
            /\ String(i, n) =>
                /\ ret'.kind = "value"
                /\ ret'.text = StreamBytes(i, i + n)
                /\ Len(ret'.text) = (IF i < L THEN Min(n, L - i) ELSE 0)
                /\ \E it \in range(ps, i, n) :
                    /\ it.ps = ps'
                    /\ it.first <= it.last /\ it.last <= Len(ps'.str)
                    /\ ret'.text = SubSeq(ps'.str, it.first + 1, it.last)]_vars

(***************************************************************************)
(* C7: maxRead() is str_off + len(str) and never exceeds L; operator[](i)  *)
(* called with the stream exhausted (maxRead() = L) and i >= L returns     *)
(* '\0' and leaves str, str_off and maxRead() as they were.                *)
(***************************************************************************)
C7_MaxReadBounded ==
    /\ [](\A m \in maxRead(ps) : m = ps.str_off + Len(ps.str) /\ m <= L)
    /\ [][\A i \in Ind : (maxRead(ps) = {L} /\ i >= L /\ Index(i)) =>
            /\ ret'.kind = "value" /\ ret'.byte = NUL
            /\ ps'.str = ps.str /\ ps'.str_off = ps.str_off
            /\ maxRead(ps') = maxRead(ps)]_vars

(***************************************************************************)
(* C8: position atomicity of the primitive matchers.  A call of any,       *)
(* matches<c> or in_range<s,e> either succeeds and leaves ps.pos one       *)
(* greater than before, or does not succeed and leaves ps.pos unchanged.   *)
(***************************************************************************)
Matchers == {"any", "matches", "in_range"}

C8_PositionAtomicity ==
    [][ret'.op \in Matchers =>
        IF ret'.kind = "value" /\ ret'.success
        THEN ps'.pos = Wrap(ps.pos + 1)
        ELSE ps'.pos = ps.pos]_vars

\* a matcher has consumed a byte of the input that follows discarded input
C8_Witness ==
    /\ ret.op \in Matchers /\ ret.kind = "value" /\ ret.success
    /\ ps.str_ok /\ ps.str_off > 0 /\ ps.pos > ps.str_off /\ ps.pos <= L
    /\ ret.byte = Data[ps.pos] /\ ret.byte # NUL

(***************************************************************************)
(* C9: with b the byte ps[ps.pos]: any succeeds iff b # '\0', matches<c>   *)
(* succeeds iff b = c, in_range<s,e> succeeds iff s <= b <= e, and a       *)
(* matcher that succeeds returns b.  So a NUL byte inside the input makes  *)
(* any fail as the end of the input does.                                  *)
(***************************************************************************)
HasByte == \* ps[ps.pos] is a byte: it neither throws nor reads outside the deque
    /\ \A o \in index(ps, ps.pos) : o.kind = "value"
    /\ Cardinality(Bytes(index(ps, ps.pos))) = 1

TheByte == CHOOSE b \in Bytes(index(ps, ps.pos)) : TRUE

C9_MatcherDecision ==
    [][(ret'.op \in Matchers /\ HasByte) =>
        /\ ret'.kind = "value"
        /\ ret'.success => ret'.byte = TheByte
        /\ (ret'.op = "any" /\ Any) => (ret'.success <=> TheByte # NUL)
        /\ \A c \in Char :
            (ret'.op = "matches" /\ Matches(c)) => (ret'.success <=> TheByte = c)
        /\ \A lo \in Char, hi \in Char :
            (ret'.op = "in_range" /\ InRange(lo, hi))
                => (ret'.success <=> (lo <= TheByte /\ TheByte <= hi))]_vars

\* any has failed on a NUL byte that lies inside the input
C9_Witness ==
    /\ ret.op = "any" /\ ret.kind = "value" /\ ~ret.success
    /\ ps.str_ok /\ ps.pos >= ps.str_off /\ ps.pos < L /\ Data[ps.pos + 1] = NUL

(***************************************************************************)
(* C10: a parse::result<T> reached by constructions and assignments        *)
(* converts to the default value of T whenever it holds no value (its bool *)
(* conversion is false), and to the value it holds whenever it holds one.  *)
(***************************************************************************)
DefaultT == NUL     \* char()

C10_ResultConversion ==
    /\ [](ret.op = "convert" => (~ret.success => ret.byte = DefaultT))
    /\ [][/\ \A x \in Results, v \in Char :
              (Construct(x, v) \/ AssignValue(x, v))
                  => (to_bool(res'[x]) /\ to_T(res'[x]) = v)
          /\ \A x \in Results, y \in Results :
              (AssignResult(x, y) /\ to_bool(res[y]))
                  => (to_bool(res'[x]) /\ to_T(res'[x]) = to_T(res[y]))]_vars

(***************************************************************************)
(* Vocabulary of C11: the places in rs of the rules named n, and that rs   *)
(* grows by the added rule at its end and the name index holds exactly the *)
(* names added.                                                            *)
(***************************************************************************)
Added(n) == {i \in 1 .. Len(gram.rs) : gram.rs[i].name = n}

First(S) == CHOOSE i \in S : \A j \in S : i <= j
Last(S)  == CHOOSE i \in S : \A j \in S : j <= i

RsKeepsInsertionOrder ==
    [][\A r \in Rules : AddRule(r) => gram'.rs = Append(gram.rs, r)]_vars

NamesIndexAdded ==
    DOMAIN gram.names = {gram.rs[i].name : i \in 1 .. Len(gram.rs)}

(***************************************************************************)
(* C11, as claimed: after any sequence of grammar += rule, rs holds every  *)
(* added rule in insertion order, duplicates included, and the name index  *)
(* maps a name added more than once to the most recently added rule of     *)
(* that name.                                                              *)
(***************************************************************************)
C11_NamesKeepMostRecent ==
    /\ [](NamesIndexAdded /\ \A n \in DOMAIN gram.names : gram.names[n] = gram.rs[Last(Added(n))])
    /\ RsKeepsInsertionOrder

(***************************************************************************)
(* C11, as amended: after any sequence of grammar += rule, rs holds every  *)
(* added rule in insertion order, duplicates included, and the name index  *)
(* maps every added name to the first rule added with that name.           *)
(***************************************************************************)
C11_NamesKeepFirst ==
    /\ [](NamesIndexAdded /\ \A n \in DOMAIN gram.names : gram.names[n] = gram.rs[First(Added(n))])
    /\ RsKeepsInsertionOrder

\* a name has been added twice, with two different rules, and a third rule after them
C11_Witness ==
    \E i \in 1 .. Len(gram.rs), j \in 1 .. Len(gram.rs) :
        /\ i < j /\ j < Len(gram.rs)
        /\ gram.rs[i].name = gram.rs[j].name /\ gram.rs[i] # gram.rs[j]
        /\ gram.names[gram.rs[i].name] = gram.rs[i]

(***************************************************************************)
(* Vocabulary of the claims about main: whether the grammar parser has     *)
(* succeeded or failed, the start of the offending line (the index after   *)
(* the last '\n' among the bytes read, 0 when there is none), and the      *)
(* lines the report has written.                                           *)
(***************************************************************************)
ParseSucceeded == ret.op = "grammar" /\ ret.success
ParseFailed    == ret.op = "grammar" /\ ~ret.success

Max(S) == CHOOSE i \in S : \A j \in S : j <= i

LineStart(m) == Max({0} \cup {i + 1 : i \in {j \in 0 .. m - 1 : StreamByte(j) = NL}})

Written(k) == {run.cerr[i] : i \in {j \in 1 .. Len(run.cerr) : run.cerr[j].line = k}}

(***************************************************************************)
(* C12: when the grammar parse fails, the number printed after "line " is  *)
(* 1 plus the number of '\n' bytes of the stream from index 0 up to the    *)
(* start of the offending line, also when the first byte is '\n'.          *)
(***************************************************************************)
C12_ReportedLineNumber ==
    \A w \in Written(2) :
        w.n = 1 + CountNL(StreamBytes(0, LineStart(run.maxPos)))

(***************************************************************************)
(* C13: in compile or print mode main returns 0 exactly when the grammar   *)
(* rule succeeds and 1 exactly when it fails; on failure nothing is        *)
(* written to the output and the report of three lines, the first with     *)
(* N = maxRead(), is written to the error stream.                          *)
(***************************************************************************)
C13_ExitCodes ==
    (run.pc = "done" /\ mode(opts) \in {"COMPILE_MODE", "PRINT_MODE"}) =>
        /\ ParseSucceeded => run.exit = "0"
        /\ ParseFailed =>
            /\ run.exit = "1"
            /\ run.cout = <<>>
            /\ Len(run.cerr) = 3
            /\ \A m \in maxRead([ps EXCEPT !.str = Take(ps.str, run.maxPos)]) :
                    run.cerr[1] = Line1(m)

(***************************************************************************)
(* Vocabulary of C14 and C15: the command line as the usage says it is     *)
(* read, egg [command] [flags] [input-file [output-file]]: what each flag  *)
(* was given, the last time it stands, and the file names after the flags. *)
(***************************************************************************)
NotGiven == [given |-> FALSE, val |-> <<>>]
Given(v) == [given |-> TRUE, val |-> v]

CommandNames == {S_print, S_compile, S_help_cmd, S_usage_cmd, S_version_cmd}

ValueFlags == {S_i, S_o, S_n, S_c}

RECURSIVE ReadFlags(_, _, _)
ReadFlags(argv, i, u) ==
    IF i > Len(argv) THEN u
    ELSE IF argv[i] \in ValueFlags /\ i + 1 <= Len(argv)
    THEN ReadFlags(argv, i + 2,
            IF argv[i] = S_i THEN [u EXCEPT !.input = Given(argv[i + 1])]
            ELSE IF argv[i] = S_o THEN [u EXCEPT !.output = Given(argv[i + 1])]
            ELSE IF argv[i] = S_n THEN [u EXCEPT !.name = Given(argv[i + 1])]
            ELSE [u EXCEPT !.command = Given(argv[i + 1])])
    ELSE IF argv[i] = S_no_norm THEN ReadFlags(argv, i + 1, [u EXCEPT !.no_norm = TRUE])
    ELSE IF argv[i] \in {S_usage, S_help, S_version}
    THEN ReadFlags(argv, i + 1, [u EXCEPT !.command = Given(argv[i])])
    ELSE IF i + 1 <= Len(argv)
    THEN [u EXCEPT !.input = Given(argv[i]), !.output = Given(argv[i + 1])]
    ELSE [u EXCEPT !.input = Given(argv[i])]

AsUsed(argv) ==
    LET none == [input |-> NotGiven, output |-> NotGiven, name |-> NotGiven,
                 command |-> NotGiven, no_norm |-> FALSE]
    IN  IF argv # <<>> /\ argv[1] \in CommandNames
        THEN ReadFlags(argv, 2, [none EXCEPT !.command = Given(argv[1])])
        ELSE ReadFlags(argv, 1, none)

IsIdentifier(s) ==
    /\ Len(s) >= 1
    /\ s[1] \in (65 .. 90) \cup (97 .. 122) \cup {95}
    /\ \A i \in 2 .. Len(s) : s[i] \in (65 .. 90) \cup (97 .. 122) \cup {95} \cup (48 .. 57)

LongestIdentifierPrefix(s) ==
    SubSeq(s, 1, Max({0} \cup {k \in 1 .. Len(s) : IsIdentifier(SubSeq(s, 1, k))}))

ArgsRead == run.pc \notin {"none", "start"}

(***************************************************************************)
(* C14: for every command line, args::name() is the longest identifier     *)
(* prefix of the -n value if one was given, else of the output file name   *)
(* if one was given, else of the input file name if one was given, else    *)
(* empty, whatever the order of the flags.                                 *)
(***************************************************************************)
C14_GrammarName ==
    ArgsRead =>
        LET u == AsUsed(run.argv) IN
        name(opts) = LongestIdentifierPrefix(
                        IF u.name.given THEN u.name.val
                        ELSE IF u.output.given THEN u.output.val
                        ELSE IF u.input.given THEN u.input.val
                        ELSE <<>>)

(***************************************************************************)
(* C15: for every command line with --no-norm among its flags, wherever it *)
(* stands among them, args::norm() is false and the normalizer is not run; *)
(* and every other flag takes effect whichever flag stands before it: the  *)
(* input and the output are the files given and the mode is the command    *)
(* given.                                                                  *)
(***************************************************************************)
ModeOf(c) ==
    IF c \in {S_print} THEN "PRINT_MODE"
    ELSE IF c \in {S_help, S_help_cmd} THEN "HELP_MODE"
    ELSE IF c \in {S_usage, S_usage_cmd} THEN "USAGE_MODE"
    ELSE IF c \in {S_version, S_version_cmd} THEN "VERSION_MODE"
    ELSE "COMPILE_MODE"

C15_FlagsTakeEffect ==
    ArgsRead =>
        LET u == AsUsed(run.argv) IN
        /\ u.no_norm => (~norm(opts) /\ ~run.normalized)
        /\ opts.in = (IF u.input.given THEN FileStream(u.input.val) ELSE NullStream)
        /\ opts.out = (IF u.output.given THEN FileStream(u.output.val) ELSE NullStream)
        /\ u.command.given => mode(opts) = ModeOf(u.command.val)

(***************************************************************************)
(* C19: in the error report, whenever maxRead() >= 1, the column           *)
(* maxRead() - line_start is at least 1 and the length of the padding      *)
(* before the caret, maxRead() - line_start - 1, is not negative; also     *)
(* when the last byte read is '\n'.                                        *)
(***************************************************************************)
C19_ColumnAtLeastOne ==
    (run.pc \in {"fwd", "count", "print"} /\ run.maxPos >= 1) =>
        /\ run.maxPos - run.startPos >= 1
        /\ run.maxPos - run.startPos - 1 >= 0

(***************************************************************************)
(* C20: every index the error report passes to the buffer, in the backward *)
(* scan, the forward scan and the newline count, lies in [0, maxRead()],   *)
(* for every failing input, the empty one included: no negative number is  *)
(* converted to an index.                                                  *)
(***************************************************************************)
C20_ReportIndicesInRange ==
    \A p \in run.passed : 0 <= p.i /\ p.i <= p.max

(***************************************************************************)
(* C16: operator[], range and string never change pos, str_off or          *)
(* newlines_off and never change or remove a byte held in str: all they do *)
(* to the state is append newly read bytes of the stream to the end of     *)
(* str.                                                                    *)
(***************************************************************************)
C16_ReadOnlyFrame ==
    [][ret'.op \in {"index", "range", "string"} =>
        /\ ps'.pos = ps.pos
        /\ ps'.str_off = ps.str_off
        /\ ps'.newlines_off = ps.newlines_off
        /\ ps'.str_ok = ps.str_ok
        /\ ps'.in.data = ps.in.data
        /\ ps'.in.gpos >= ps.in.gpos
        /\ ps'.str = ps.str \o SubSeq(Data, ps.in.gpos + 1, ps'.in.gpos)]_vars

\* string has returned bytes of a buffer that holds input read by more than one
\* call, after a discard
C16_Witness ==
    /\ ret.op = "string" /\ ret.kind = "value" /\ Len(ret.text) >= 2
    /\ ps.str_ok /\ ps.str_off > 0 /\ Len(ps.str) >= 2 /\ ps.in.gpos = L

(***************************************************************************)
(* C17: forgetTo(i) never removes more bytes than the buffer holds: for    *)
(* every i, also i > maxRead(), the erased prefix is at most len(str)      *)
(* long, and afterwards str_off <= maxRead() and maxRead() is not smaller  *)
(* than before the call.                                                   *)
(***************************************************************************)
C17_ForgetToBounded ==
    [][\A i \in Ind : ForgetTo(i) =>
        /\ (i > ps.str_off => i - ps.str_off <= Len(ps.str))
        /\ ps'.str_ok
        /\ \A m \in maxRead(ps') : ps'.str_off <= m
        /\ \A m \in maxRead(ps), n \in maxRead(ps') : m <= n]_vars

(***************************************************************************)
(* C18: from pos = 0 on a stream of length L, after any sequence of calls  *)
(* of any, matches<c> and in_range<s,e>, for every c, s and e, '\0'        *)
(* included, ps.pos exceeds neither L nor maxRead().                       *)
(***************************************************************************)
C18_PosWithinInput ==
    /\ ps.pos <= L
    /\ \A m \in maxRead(ps) : ps.pos <= m

====
